---- MODULE Spec2Model ----
(***************************************************************************)
(* Room/session coordination of the 3-room chat server (src/server.js).    *)
(* The chatState program (lines 203-531) is the main model: the room       *)
(* registry, membership and ownership, the per-room message log, and the   *)
(* events each handler emits.  The handlers of the first program in the    *)
(* same file (lines 1-201) are modelled over the same variables and make   *)
(* up SpecFirst.  Every socket.on handler runs to completion, so each      *)
(* handler is one action.                                                  *)
(***************************************************************************)
EXTENDS Integers, Sequences, FiniteSets, TLC

VARIABLES
  rooms,        \* chatState.rooms: roomId -> [users, messages, owner]
  activeUsers,  \* chatState.activeUsers: Map userId -> [username, roomId]
  socket,       \* per connection: [status, roomId, username]
  channels,     \* socket.io rooms each socket is subscribed to (socket.join/leave)
  emitted,      \* the events the last handler emitted, in emission order
  now,          \* Date.now(): advances with every stored message
  appended,     \* history: per room, the messages stored since the last clear
  before        \* history: the last inbound event, and the state its handler found

vars == <<rooms, activeUsers, socket, channels, emitted, now, appended, before>>

----------------------------------------------------------------------------
(* Bounds and input domains *)

MaxClock == 1       \* sends explored by Spec
MaxLogClock == 203  \* sends explored by SpecLog (beyond the retention limit)
MaxOrderClock == 3  \* sends explored by SpecOrder

Conns == {"c1", "c2", "c3"}
Rooms == {"room1", "room2", "room3"}
NULL == "null"

MessageLimit == 200

NoUser == [id |-> NULL, username |-> "", isOwner |-> FALSE]

----------------------------------------------------------------------------
(* Array and string helpers *)

\* users.findIndex(user => user.id === userId), 1-based; 0 stands for -1
findIndex(users, userId) ==
  IF \E i \in 1..Len(users) : users[i].id = userId
  THEN CHOOSE i \in 1..Len(users) :
         /\ users[i].id = userId
         /\ \A j \in 1..(i - 1) : users[j].id # userId
  ELSE 0

\* faulty variant: splice(userIndex, 0) removes nothing
spliceNothing(users, i) == users

\* users.splice(userIndex, 1)
splice(users, i) == SubSeq(users, 1, i - 1) \o SubSeq(users, i + 1, Len(users))

\* faulty variant: unshift puts the new element first
unshift(arr, x) == <<x>> \o arr

\* arr.push(x)
push(arr, x) == Append(arr, x)

\* faulty variant: slice(0, n) keeps the oldest n
sliceOldest(messages, n) ==
  IF Len(messages) <= n THEN messages ELSE SubSeq(messages, 1, n)

\* messages.slice(-n)
slice(messages, n) ==
  IF Len(messages) <= n THEN messages
  ELSE SubSeq(messages, Len(messages) - n + 1, Len(messages))

RECURSIVE trimStart(_)
trimStart(s) == IF s # <<>> /\ Head(s) = " " THEN trimStart(Tail(s)) ELSE s

RECURSIVE trimEnd(_)
trimEnd(s) ==
  IF s # <<>> /\ s[Len(s)] = " " THEN trimEnd(SubSeq(s, 1, Len(s) - 1)) ELSE s

\* message.trim()
trim(s) == trimEnd(trimStart(s))

----------------------------------------------------------------------------
(* Helper functions of the server; st = [rooms, activeUsers, channels] *)

getAvailableRooms(rs) ==
  [id \in Rooms |-> [userCount    |-> Len(rs[id].users),
                     messageCount |-> Len(rs[id].messages),
                     owner        |-> rs[id].owner]]

\* the forEach of joinRoom: remove the user from every room's users
removeFromRooms(rs, userId) ==
  [id \in Rooms |->
     LET i == findIndex(rs[id].users, userId)
     IN  IF i # 0 THEN [rs[id] EXCEPT !.users = splice(@, i)] ELSE rs[id]]

\* faulty variant: every joiner takes the room over
joinRoomTakesOver(st, userId, username, roomId) ==
  IF roomId \notin Rooms THEN [st |-> st, ok |-> FALSE]
  ELSE
    LET user == [id |-> userId, username |-> username, isOwner |-> TRUE]
        r1 == [st.rooms EXCEPT ![roomId].owner = userId]
        r2 == [id \in Rooms |->
                 LET i == findIndex(r1[id].users, userId)
                 IN  IF i # 0 THEN [r1[id] EXCEPT !.users = splice(@, i)] ELSE r1[id]]
        r3 == [r2 EXCEPT ![roomId].users = Append(@, user)]
    IN  [st |-> [rooms |-> r3,
                 activeUsers |-> [u \in DOMAIN st.activeUsers \cup {userId} |->
                                    IF u = userId
                                    THEN [username |-> username, roomId |-> roomId]
                                    ELSE st.activeUsers[u]],
                 channels |-> [st.channels EXCEPT ![userId] = @ \cup {roomId}]],
         ok |-> TRUE]

\* faulty variant: a joiner never takes an ownerless room
joinRoomNeverOwns(st, userId, username, roomId) ==
  IF roomId \notin Rooms THEN [st |-> st, ok |-> FALSE]
  ELSE
    LET user == [id |-> userId, username |-> username,
                 isOwner |-> st.rooms[roomId].owner = userId]
        r2 == removeFromRooms(st.rooms, userId)
        r3 == [r2 EXCEPT ![roomId].users = Append(@, user)]
    IN  [st |-> [rooms |-> r3,
                 activeUsers |-> [u \in DOMAIN st.activeUsers \cup {userId} |->
                                    IF u = userId
                                    THEN [username |-> username, roomId |-> roomId]
                                    ELSE st.activeUsers[u]],
                 channels |-> [st.channels EXCEPT ![userId] = @ \cup {roomId}]],
         ok |-> TRUE]

\* faulty variant: chatState.activeUsers.set(userId, ...) is missing
joinRoomSkipsRegistry(st, userId, username, roomId) ==
  IF roomId \notin Rooms THEN [st |-> st, ok |-> FALSE]
  ELSE
    LET hadOwner == st.rooms[roomId].owner # NULL
        user == [id |-> userId, username |-> username,
                 isOwner |-> IF ~hadOwner THEN TRUE
                             ELSE st.rooms[roomId].owner = userId]
        r1 == IF ~hadOwner
              THEN [st.rooms EXCEPT ![roomId].owner = userId]
              ELSE st.rooms
        r2 == removeFromRooms(r1, userId)
        r3 == [r2 EXCEPT ![roomId].users = Append(@, user)]
    IN  [st |-> [rooms |-> r3,
                 activeUsers |-> st.activeUsers,
                 channels |-> [st.channels EXCEPT ![userId] = @ \cup {roomId}]],
         ok |-> TRUE]

joinRoom(st, userId, username, roomId) ==
  IF roomId \notin Rooms THEN [st |-> st, ok |-> FALSE]
  ELSE
    LET hadOwner == st.rooms[roomId].owner # NULL
        user == [id |-> userId, username |-> username,
                 isOwner |-> IF ~hadOwner THEN TRUE
                             ELSE st.rooms[roomId].owner = userId]
        r1 == IF ~hadOwner
              THEN [st.rooms EXCEPT ![roomId].owner = userId]
              ELSE st.rooms
        r2 == removeFromRooms(r1, userId)
        r3 == [r2 EXCEPT ![roomId].users = Append(@, user)]
    IN  [st |-> [rooms |-> r3,
                 activeUsers |-> [u \in DOMAIN st.activeUsers \cup {userId} |->
                                    IF u = userId
                                    THEN [username |-> username, roomId |-> roomId]
                                    ELSE st.activeUsers[u]],
                 channels |-> [st.channels EXCEPT ![userId] = @ \cup {roomId}]],
         ok |-> TRUE]

\* faulty variant: the owner's departure leaves room.owner as it was
leaveRoomKeepsOwner(st, userId, roomId) ==
  IF roomId \notin Rooms THEN [st |-> st, user |-> NoUser]
  ELSE
    LET userIndex == findIndex(st.rooms[roomId].users, userId) IN
    IF userIndex = 0 THEN [st |-> st, user |-> NoUser]
    ELSE
      [st |-> [rooms |-> [st.rooms EXCEPT ![roomId].users = splice(@, userIndex)],
               activeUsers |-> [u \in DOMAIN st.activeUsers \ {userId} |->
                                  st.activeUsers[u]],
               channels |-> [st.channels EXCEPT ![userId] = @ \ {roomId}]],
       user |-> st.rooms[roomId].users[userIndex]]

\* faulty variant: succession picks the most recent member, users[users.length - 1]
leaveRoomPromotesLast(st, userId, roomId) ==
  IF roomId \notin Rooms THEN [st |-> st, user |-> NoUser]
  ELSE
    LET userIndex == findIndex(st.rooms[roomId].users, userId) IN
    IF userIndex = 0 THEN [st |-> st, user |-> NoUser]
    ELSE
      LET user == st.rooms[roomId].users[userIndex]
          rest == splice(st.rooms[roomId].users, userIndex)
          room1 == [st.rooms[roomId] EXCEPT !.users = rest]
          room2 ==
            IF room1.owner = userId
            THEN IF Len(rest) > 0
                 THEN [room1 EXCEPT !.owner = rest[Len(rest)].id,
                                    !.users[Len(rest)].isOwner = TRUE]
                 ELSE [room1 EXCEPT !.owner = NULL]
            ELSE room1
      IN  [st |-> [rooms |-> [st.rooms EXCEPT ![roomId] = room2],
                   activeUsers |-> [u \in DOMAIN st.activeUsers \ {userId} |->
                                      st.activeUsers[u]],
                   channels |-> [st.channels EXCEPT ![userId] = @ \ {roomId}]],
           user |-> user]

\* faulty variant: no userIndex !== -1 check, so splice(-1, 1) takes the last user out
leaveRoomUnchecked(st, userId, roomId) ==
  IF roomId \notin Rooms THEN [st |-> st, user |-> NoUser]
  ELSE
    LET users == st.rooms[roomId].users
        found == findIndex(users, userId)
        userIndex == IF found = 0 THEN Len(users) ELSE found
    IN
    IF userIndex = 0 THEN [st |-> st, user |-> NoUser]
    ELSE
      LET user == users[userIndex]
          rest == splice(users, userIndex)
          room1 == [st.rooms[roomId] EXCEPT !.users = rest]
          room2 ==
            IF room1.owner = userId
            THEN IF Len(rest) > 0
                 THEN [room1 EXCEPT !.owner = rest[1].id,
                                    !.users[1].isOwner = TRUE]
                 ELSE [room1 EXCEPT !.owner = NULL]
            ELSE room1
      IN  [st |-> [rooms |-> [st.rooms EXCEPT ![roomId] = room2],
                   activeUsers |-> [u \in DOMAIN st.activeUsers \ {userId} |->
                                      st.activeUsers[u]],
                   channels |-> [st.channels EXCEPT ![userId] = @ \ {roomId}]],
           user |-> user]

\* faulty variant: a room that loses its last member loses its log too
leaveRoomDropsLog(st, userId, roomId) ==
  IF roomId \notin Rooms THEN [st |-> st, user |-> NoUser]
  ELSE
    LET userIndex == findIndex(st.rooms[roomId].users, userId) IN
    IF userIndex = 0 THEN [st |-> st, user |-> NoUser]
    ELSE
      LET user == st.rooms[roomId].users[userIndex]
          rest == splice(st.rooms[roomId].users, userIndex)
          room1 == [st.rooms[roomId] EXCEPT !.users = rest]
          room2 ==
            IF room1.owner = userId
            THEN IF Len(rest) > 0
                 THEN [room1 EXCEPT !.owner = rest[1].id,
                                    !.users[1].isOwner = TRUE]
                 ELSE [room1 EXCEPT !.owner = NULL, !.messages = <<>>]
            ELSE room1
      IN  [st |-> [rooms |-> [st.rooms EXCEPT ![roomId] = room2],
                   activeUsers |-> [u \in DOMAIN st.activeUsers \ {userId} |->
                                      st.activeUsers[u]],
                   channels |-> [st.channels EXCEPT ![userId] = @ \ {roomId}]],
           user |-> user]

\* faulty variant: chatState.activeUsers.delete(userId) is missing
leaveRoomKeepsRegistry(st, userId, roomId) ==
  IF roomId \notin Rooms THEN [st |-> st, user |-> NoUser]
  ELSE
    LET userIndex == findIndex(st.rooms[roomId].users, userId) IN
    IF userIndex = 0 THEN [st |-> st, user |-> NoUser]
    ELSE
      LET user == st.rooms[roomId].users[userIndex]
          rest == splice(st.rooms[roomId].users, userIndex)
          room1 == [st.rooms[roomId] EXCEPT !.users = rest]
          room2 ==
            IF room1.owner = userId
            THEN IF Len(rest) > 0
                 THEN [room1 EXCEPT !.owner = rest[1].id,
                                    !.users[1].isOwner = TRUE]
                 ELSE [room1 EXCEPT !.owner = NULL]
            ELSE room1
      IN  [st |-> [rooms |-> [st.rooms EXCEPT ![roomId] = room2],
                   activeUsers |-> st.activeUsers,
                   channels |-> [st.channels EXCEPT ![userId] = @ \ {roomId}]],
           user |-> user]

\* faulty variant: succession changes room.owner but not the member's flag
leaveRoomKeepsFlags(st, userId, roomId) ==
  IF roomId \notin Rooms THEN [st |-> st, user |-> NoUser]
  ELSE
    LET userIndex == findIndex(st.rooms[roomId].users, userId) IN
    IF userIndex = 0 THEN [st |-> st, user |-> NoUser]
    ELSE
      LET user == st.rooms[roomId].users[userIndex]
          rest == splice(st.rooms[roomId].users, userIndex)
          room1 == [st.rooms[roomId] EXCEPT !.users = rest]
          room2 ==
            IF room1.owner = userId
            THEN IF Len(rest) > 0
                 THEN [room1 EXCEPT !.owner = rest[1].id]
                 ELSE [room1 EXCEPT !.owner = NULL]
            ELSE room1
      IN  [st |-> [rooms |-> [st.rooms EXCEPT ![roomId] = room2],
                   activeUsers |-> [u \in DOMAIN st.activeUsers \ {userId} |->
                                      st.activeUsers[u]],
                   channels |-> [st.channels EXCEPT ![userId] = @ \ {roomId}]],
           user |-> user]

leaveRoom(st, userId, roomId) ==
  IF roomId \notin Rooms THEN [st |-> st, user |-> NoUser]
  ELSE
    LET userIndex == findIndex(st.rooms[roomId].users, userId) IN
    IF userIndex = 0 THEN [st |-> st, user |-> NoUser]
    ELSE
      LET user == st.rooms[roomId].users[userIndex]
          rest == splice(st.rooms[roomId].users, userIndex)
          room1 == [st.rooms[roomId] EXCEPT !.users = rest]
          room2 ==
            IF room1.owner = userId
            THEN IF Len(rest) > 0
                 THEN [room1 EXCEPT !.owner = rest[1].id,
                                    !.users[1].isOwner = TRUE]
                 ELSE [room1 EXCEPT !.owner = NULL]
            ELSE room1
      IN  [st |-> [rooms |-> [st.rooms EXCEPT ![roomId] = room2],
                   activeUsers |-> [u \in DOMAIN st.activeUsers \ {userId} |->
                                      st.activeUsers[u]],
                   channels |-> [st.channels EXCEPT ![userId] = @ \ {roomId}]],
           user |-> user]

----------------------------------------------------------------------------
(* Audiences of the emit primitives *)

\* socket.emit: the sender only
toSender(c) == {c}
\* faulty variant: io.to(roomId) in place of socket.to(roomId)
toOthersAndSender(ch, c, roomId) == {d \in Conns : roomId \in ch[d]}
\* socket.to(roomId): every socket in the channel except the sender
toOthers(ch, c, roomId) == {d \in Conns : roomId \in ch[d]} \ {c}
\* io.to(roomId): every socket in the channel
toRoom(ch, roomId) == {d \in Conns : roomId \in ch[d]}

State == [rooms |-> rooms, activeUsers |-> activeUsers, channels |-> channels]

Connected(c) == socket[c].status = "connected"

\* the inbound event a handler is given, and the state it starts from
Event(type, c, roomId) == [type |-> type, conn |-> c, roomId |-> roomId]
Snapshot(e) ==
  [event |-> e, rooms |-> rooms, activeUsers |-> activeUsers,
   channels |-> channels, socket |-> socket]

----------------------------------------------------------------------------
Init ==
  /\ rooms = [id \in Rooms |-> [users |-> <<>>, messages |-> <<>>, owner |-> NULL]]
  /\ activeUsers = [u \in {} |-> [username |-> "", roomId |-> NULL]]
  /\ socket = [c \in Conns |-> [status |-> "new", roomId |-> NULL, username |-> NULL]]
  /\ channels = [c \in Conns |-> {}]
  /\ emitted = <<>>
  /\ now = 0
  /\ appended = [id \in Rooms |-> <<>>]
  /\ before = Snapshot(Event("none", NULL, NULL))

\* io.on('connection')
OnConnection(c) ==
  /\ socket[c].status = "new"
  /\ before' = Snapshot(Event("connection", c, NULL))
  /\ socket' = [socket EXCEPT ![c].status = "connected"]
  /\ emitted' = << [event |-> "availableRooms", to |-> toSender(c),
                    rooms |-> getAvailableRooms(rooms)] >>
  /\ UNCHANGED <<rooms, activeUsers, channels, now, appended>>

\* socket.on('joinRoom')
OnJoinRoom(c, username, roomId) ==
  /\ Connected(c)
  /\ before' = Snapshot(Event("joinRoom", c, roomId))
  /\ IF username = "" \/ roomId = ""
     THEN /\ emitted' = << [event |-> "error", to |-> toSender(c),
                            message |-> "Username and room ID are required"] >>
          /\ UNCHANGED <<rooms, activeUsers, socket, channels, now, appended>>
     ELSE
       \E old \in {socket[c].roomId} :
       \E left \in {IF old # NULL THEN leaveRoom(State, c, old)
                    ELSE [st |-> State, user |-> NoUser]} :
       \E leftEvents \in
            {IF left.user.id # NULL
             THEN << [event |-> "userLeftRoom",
                      to |-> toOthers(left.st.channels, c, old),
                      username |-> left.user.username, roomId |-> old,
                      users |-> left.st.rooms[old].users] >>
             ELSE <<>>} :
       \E joined \in {joinRoom(left.st, c, username, roomId)} :
           /\ rooms' = joined.st.rooms
           /\ activeUsers' = joined.st.activeUsers
           /\ channels' = joined.st.channels
           /\ UNCHANGED <<now, appended>>
           /\ IF ~joined.ok
              THEN /\ emitted' = leftEvents \o
                        << [event |-> "error", to |-> toSender(c),
                            message |-> "Room not found"] >>
                   /\ UNCHANGED socket
              ELSE LET users == joined.st.rooms[roomId].users
                       i == findIndex(users, c)
                       userData == IF i # 0 THEN users[i] ELSE NoUser
                   IN
                   /\ socket' = [socket EXCEPT ![c].roomId = roomId,
                                               ![c].username = username]
                   /\ emitted' = leftEvents \o
                        << [event |-> "roomJoined", to |-> toSender(c),
                            roomId |-> roomId, users |-> users,
                            isOwner |-> userData.isOwner],
                           [event |-> "userJoinedRoom",
                            to |-> toOthers(joined.st.channels, c, roomId),
                            username |-> username, roomId |-> roomId,
                            users |-> users] >>

\* socket.on('sendMessage')
OnSendMessage(c, username, message, roomId) ==
  /\ Connected(c)
  /\ before' = Snapshot(Event("sendMessage", c, roomId))
  /\ IF username = "" \/ message = <<>> \/ roomId = ""
     THEN /\ emitted' = << [event |-> "error", to |-> toSender(c),
                            message |-> "Missing required fields"] >>
          /\ UNCHANGED <<rooms, activeUsers, socket, channels, now, appended>>
     ELSE IF roomId \notin Rooms
     THEN /\ emitted' = << [event |-> "error", to |-> toSender(c),
                            message |-> "Room not found"] >>
          /\ UNCHANGED <<rooms, activeUsers, socket, channels, now, appended>>
     ELSE
       LET messageObj == [id |-> now, username |-> username,
                          message |-> trim(message), userId |-> c,
                          type |-> "user"]
           pushed == push(rooms[roomId].messages, messageObj)
       IN  /\ rooms' = [rooms EXCEPT ![roomId].messages =
                          IF Len(pushed) > MessageLimit
                          THEN slice(pushed, MessageLimit) ELSE pushed]
           /\ appended' = [appended EXCEPT ![roomId] = Append(@, messageObj)]
           /\ now' = now + 1
           /\ emitted' = << [event |-> "newMessage", to |-> toRoom(channels, roomId),
                             roomId |-> roomId, msg |-> messageObj] >>
           /\ UNCHANGED <<activeUsers, socket, channels>>

\* socket.on('getRooms')
OnGetRooms(c) ==
  /\ Connected(c)
  /\ before' = Snapshot(Event("getRooms", c, NULL))
  /\ emitted' = << [event |-> "availableRooms", to |-> toSender(c),
                    rooms |-> getAvailableRooms(rooms)] >>
  /\ UNCHANGED <<rooms, activeUsers, socket, channels, now, appended>>

\* faulty variant: the owner check is missing
notOwnerSkipped(rs, roomId, c) == FALSE

\* chatState.rooms[roomId].owner !== socket.id
notOwner(rs, roomId, c) == rs[roomId].owner # c

\* socket.on('clearChat')
OnClearChat(c, roomId) ==
  /\ Connected(c)
  /\ before' = Snapshot(Event("clearChat", c, roomId))
  /\ IF roomId = "" \/ roomId \notin Rooms
     THEN /\ emitted' = << [event |-> "error", to |-> toSender(c),
                            message |-> "Room not found"] >>
          /\ UNCHANGED <<rooms, activeUsers, socket, channels, now, appended>>
     ELSE IF notOwner(rooms, roomId, c)
     THEN /\ emitted' = << [event |-> "error", to |-> toSender(c),
                            message |-> "Only room owner can clear chat"] >>
          /\ UNCHANGED <<rooms, activeUsers, socket, channels, now, appended>>
     ELSE /\ rooms' = [rooms EXCEPT ![roomId].messages = <<>>]
          /\ appended' = [appended EXCEPT ![roomId] = <<>>]
          /\ emitted' = << [event |-> "chatCleared", to |-> toRoom(channels, roomId),
                            clearedBy |-> socket[c].username, roomId |-> roomId] >>
          /\ UNCHANGED <<activeUsers, socket, channels, now>>

\* socket.on('disconnect'); the transport has already taken the socket out of
\* every channel when the handler runs, and the socket object dies with it
OnDisconnect(c) ==
  /\ Connected(c)
  /\ before' = Snapshot(Event("disconnect", c, NULL))
  /\ socket' = [socket EXCEPT ![c] = [status |-> "disconnected", roomId |-> NULL,
                                       username |-> NULL]]
  /\ UNCHANGED <<now, appended>>
  /\ \E old \in {socket[c].roomId} :
     \E left \in {IF old # NULL
                  THEN leaveRoom([State EXCEPT !.channels[c] = {}], c, old)
                  ELSE [st |-> [State EXCEPT !.channels[c] = {}],
                        user |-> NoUser]} :
         /\ rooms' = left.st.rooms
         /\ activeUsers' = left.st.activeUsers
         /\ channels' = left.st.channels
         /\ emitted' = IF left.user.id # NULL
                       THEN << [event |-> "userLeftRoom",
                                to |-> toOthers(left.st.channels, c, old),
                                username |-> left.user.username, roomId |-> old,
                                users |-> left.st.rooms[old].users] >>
                       ELSE <<>>

\* the payloads explored: every valid one, and one of each invalid shape
JoinInputs ==
  {<<"alice", r>> : r \in Rooms \cup {"room9"}} \cup {<<"", "room1">>, <<"alice", "">>}
SendInputs ==
  {<<"alice", <<" ", "h", " ">>, r>> : r \in {"room1", "room9"}}
    \cup {<<"", <<"h">>, "room1">>, <<"alice", <<>>, "room1">>, <<"alice", <<"h">>, "">>}
\* the connections whose sendMessage events are explored: connections and
\* rooms are interchangeable, so the messages come from c1 and go to room1
Senders == {"c1"}
ClearInputs == Rooms \cup {"", "room9"}

Next ==
  \/ \E c \in Conns : OnConnection(c)
  \/ \E c \in Conns, in \in JoinInputs : OnJoinRoom(c, in[1], in[2])
  \/ \E c \in Senders, in \in SendInputs :
       now < MaxClock /\ OnSendMessage(c, in[1], in[2], in[3])
  \/ \E c \in Conns : OnGetRooms(c)
  \/ \E c \in Conns, roomId \in ClearInputs : OnClearChat(c, roomId)
  \/ \E c \in Conns : OnDisconnect(c)

Spec == Init /\ [][Next]_vars

\* One connection that joins room1, fills its log past the retention limit and
\* clears it
NextLog ==
  \/ OnConnection("c1")
  \/ OnJoinRoom("c1", "alice", "room1")
  \/ now < MaxLogClock /\ OnSendMessage("c1", "alice", <<"h">>, "room1")
  \/ OnClearChat("c1", "room1")

SpecLog == Init /\ [][NextLog]_vars

\* Two connections that join room1 and send to it in every interleaving
SendersOrder == {"c1", "c2"}

NextOrder ==
  \/ \E c \in SendersOrder : OnConnection(c)
  \/ \E c \in SendersOrder : OnJoinRoom(c, "alice", "room1")
  \/ \E c \in SendersOrder :
       now < MaxOrderClock /\ OnSendMessage(c, "alice", <<"h">>, "room1")
  \/ \E c \in SendersOrder : OnDisconnect(c)

SpecOrder == Init /\ [][NextOrder]_vars

----------------------------------------------------------------------------
(* The first program of src/server.js (lines 1-201): the same three rooms   *)
(* without owner, registry or retention limit; it has a leaveRoom event and *)
(* sends a room summary to every socket after each membership change.       *)

\* broadcastRoomUpdates(): io.emit('roomsUpdate', roomData)
broadcastRoomUpdates(sk, rs) ==
  [event |-> "roomsUpdate",
   to |-> {d \in Conns : sk[d].status = "connected"},
   rooms |-> [id \in Rooms |-> [userCount |-> Len(rs[id].users)]]]

InitFirst ==
  /\ rooms = [id \in Rooms |-> [users |-> <<>>, messages |-> <<>>]]
  /\ activeUsers = [u \in {} |-> [username |-> "", roomId |-> NULL]]
  /\ socket = [c \in Conns |-> [status |-> "new", roomId |-> NULL, username |-> NULL]]
  /\ channels = [c \in Conns |-> {}]
  /\ emitted = <<>>
  /\ now = 0
  /\ appended = [id \in Rooms |-> <<>>]
  /\ before = Snapshot(Event("none", NULL, NULL))

\* io.on('connection')
OnConnectionFirst(c) ==
  /\ socket[c].status = "new"
  /\ before' = Snapshot(Event("connection", c, NULL))
  /\ socket' = [socket EXCEPT ![c].status = "connected"]
  /\ emitted' = << broadcastRoomUpdates(socket', rooms) >>
  /\ UNCHANGED <<rooms, activeUsers, channels, now, appended>>

\* socket.on('joinRoom'): the previous room's users lose the socket, but the
\* socket is never taken out of the previous room's channel
OnJoinRoomFirst(c, username, roomId) ==
  /\ Connected(c)
  /\ before' = Snapshot(Event("joinRoom", c, roomId))
  /\ IF username = "" \/ roomId = ""
     THEN /\ emitted' = << [event |-> "error", to |-> toSender(c),
                            message |-> "Username and room ID are required"] >>
          /\ UNCHANGED <<rooms, activeUsers, socket, channels, now, appended>>
     ELSE IF roomId \notin Rooms
     THEN /\ emitted' = << [event |-> "error", to |-> toSender(c),
                            message |-> "Room not found"] >>
          /\ UNCHANGED <<rooms, activeUsers, socket, channels, now, appended>>
     ELSE
       \E old \in {socket[c].roomId} :
       \E r1 \in {IF old # NULL /\ findIndex(rooms[old].users, c) # 0
                  THEN [rooms EXCEPT ![old].users =
                          splice(@, findIndex(@, c))]
                  ELSE rooms} :
       \E leftEvents \in
            {IF old # NULL
             THEN << [event |-> "userLeft", to |-> toOthers(channels, c, old),
                      username |-> socket[c].username, roomId |-> old,
                      users |-> r1[old].users],
                     broadcastRoomUpdates(socket, r1) >>
             ELSE <<>>} :
       \E r2 \in {[r1 EXCEPT ![roomId].users =
                     Append(@, [id |-> c, username |-> username])]} :
           /\ socket' = [socket EXCEPT ![c].roomId = roomId,
                                       ![c].username = username]
           /\ channels' = [channels EXCEPT ![c] = @ \cup {roomId}]
           /\ rooms' = r2
           /\ emitted' = leftEvents \o
                << [event |-> "roomJoined", to |-> toSender(c),
                    roomId |-> roomId, users |-> r2[roomId].users],
                   [event |-> "userJoined", to |-> toOthers(channels', c, roomId),
                    username |-> username, roomId |-> roomId,
                    users |-> r2[roomId].users],
                   broadcastRoomUpdates(socket', r2) >>
           /\ UNCHANGED <<activeUsers, now, appended>>

\* socket.on('sendMessage')
OnSendMessageFirst(c, message, roomId) ==
  /\ Connected(c)
  /\ before' = Snapshot(Event("sendMessage", c, roomId))
  /\ IF socket[c].roomId = NULL \/ socket[c].username \in {NULL, ""}
          \/ socket[c].roomId # roomId
     THEN /\ emitted' = <<>>
          /\ UNCHANGED <<rooms, activeUsers, socket, channels, now, appended>>
     ELSE
       LET messageObj == [id |-> now, username |-> socket[c].username,
                          message |-> message, userId |-> c]
       IN  /\ rooms' = [rooms EXCEPT ![roomId].messages = push(@, messageObj)]
           /\ appended' = [appended EXCEPT ![roomId] = Append(@, messageObj)]
           /\ now' = now + 1
           /\ emitted' = << [event |-> "newMessage", to |-> toRoom(channels, roomId),
                             roomId |-> roomId, msg |-> messageObj] >>
           /\ UNCHANGED <<activeUsers, socket, channels>>

\* socket.on('leaveRoom')
OnLeaveRoomFirst(c) ==
  /\ Connected(c)
  /\ before' = Snapshot(Event("leaveRoom", c, NULL))
  /\ UNCHANGED <<activeUsers, now, appended>>
  /\ \E old \in {socket[c].roomId} :
       IF old \in Rooms /\ findIndex(rooms[old].users, c) # 0
       THEN /\ rooms' = [rooms EXCEPT ![old].users = splice(@, findIndex(@, c))]
            /\ channels' = [channels EXCEPT ![c] = @ \ {old}]
            /\ emitted' =
                 << [event |-> "userLeft", to |-> toOthers(channels', c, old),
                     username |-> rooms[old].users[findIndex(rooms[old].users, c)].username,
                     roomId |-> old, users |-> rooms'[old].users],
                    broadcastRoomUpdates(socket, rooms') >>
            /\ socket' = [socket EXCEPT ![c].roomId = NULL]
       ELSE /\ emitted' = <<>>
            /\ UNCHANGED <<rooms, channels, socket>>

\* socket.on('disconnect'); the transport has already taken the socket out of
\* every channel when the handler runs
OnDisconnectFirst(c) ==
  /\ Connected(c)
  /\ before' = Snapshot(Event("disconnect", c, NULL))
  /\ socket' = [socket EXCEPT ![c] = [status |-> "disconnected", roomId |-> NULL,
                                       username |-> NULL]]
  /\ channels' = [channels EXCEPT ![c] = {}]
  /\ UNCHANGED <<activeUsers, now, appended>>
  /\ \E old \in {socket[c].roomId} :
       IF old \in Rooms /\ findIndex(rooms[old].users, c) # 0
       THEN /\ rooms' = [rooms EXCEPT ![old].users = splice(@, findIndex(@, c))]
            /\ emitted' =
                 << [event |-> "userLeft", to |-> toOthers(channels', c, old),
                     username |-> rooms[old].users[findIndex(rooms[old].users, c)].username,
                     roomId |-> old, users |-> rooms'[old].users],
                    broadcastRoomUpdates(socket', rooms') >>
       ELSE /\ emitted' = <<>>
            /\ UNCHANGED rooms

\* the first program is explored with two connections moving between two of
\* the rooms
ConnsFirst == {"c1", "c2"}
JoinInputsFirst ==
  {<<"alice", r>> : r \in {"room1", "room2", "room9"}} \cup {<<"", "room1">>}

NextFirst ==
  \/ \E c \in ConnsFirst : OnConnectionFirst(c)
  \/ \E c \in ConnsFirst, in \in JoinInputsFirst : OnJoinRoomFirst(c, in[1], in[2])
  \/ \E c \in ConnsFirst, roomId \in {"room1", "room2"} :
       now < MaxClock /\ OnSendMessageFirst(c, <<"h">>, roomId)
  \/ \E c \in ConnsFirst : OnLeaveRoomFirst(c)
  \/ \E c \in ConnsFirst : OnDisconnectFirst(c)

SpecFirst == InitFirst /\ [][NextFirst]_vars

----------------------------------------------------------------------------
(* Vocabulary of the properties *)

Ids(users) == [i \in 1..Len(users) |-> users[i].id]
Members(rs, r) == {rs[r].users[i].id : i \in 1..Len(rs[r].users)}
Places(rs, c) ==
  {p \in UNION {{<<r, i>> : i \in 1..Len(rs[r].users)} : r \in Rooms} :
     rs[p[1]].users[p[2]].id = c}
Without(ids, c) == SelectSeq(ids, LAMBDA x : x # c)
LastN(s, n) ==
  LET k == IF Len(s) < n THEN Len(s) ELSE n
  IN  [i \in 1..k |-> s[Len(s) - k + i]]

\* C1 -- Exclusivity: in every reachable state each connection id appears in
\* the users sequence of at most one room, and at most once in it.
C1_Exclusivity == \A c \in Conns : Cardinality(Places(rooms, c)) <= 1

\* a connection has just moved from one room into another
C1_Witness ==
  \E c \in Conns, r1, r2 \in Rooms :
    /\ r1 # r2
    /\ c \in Members(before.rooms, r1)
    /\ c \in Members(rooms, r2)

\* C2 -- Ownership invariant: in every reachable state every room's owner is
\* null or the id of a member currently in that room's users.
C2_OwnerIsMember ==
  \A r \in Rooms : rooms[r].owner = NULL \/ rooms[r].owner \in Members(rooms, r)

\* the owner has just left a room that still has an owner
C2_Witness ==
  \E r \in Rooms, c \in Conns :
    /\ before.rooms[r].owner = c
    /\ c \notin Members(rooms, r)
    /\ rooms[r].owner # NULL

\* C3 -- Succession: when the owner of a room leaves it (room switch or
\* disconnect), the remaining members keep their order, and the owner
\* afterwards is the head of the remaining sequence, or null when none remains.
C3_Succession ==
  \A r \in Rooms, c \in Conns :
    (/\ before.rooms[r].owner = c
     /\ c \in Members(before.rooms, r)
     /\ c \notin Members(rooms, r))
      => /\ Ids(rooms[r].users) = Without(Ids(before.rooms[r].users), c)
         /\ rooms[r].owner = IF rooms[r].users = <<>> THEN NULL
                              ELSE Head(rooms[r].users).id

\* the owner has just left a room in which two members remain
C3_Witness ==
  \E r \in Rooms, c \in Conns :
    /\ before.rooms[r].owner = c
    /\ c \in Members(before.rooms, r)
    /\ c \notin Members(rooms, r)
    /\ Len(rooms[r].users) = 2

Emitted(type) == {i \in 1..Len(emitted) : emitted[i].event = type}
\* the connection the last event came from was a member of the room its
\* session pointed at when the handler began
WasInSessionRoom ==
  LET c == before.event.conn
      old == before.socket[c].roomId
  IN  old \in Rooms /\ c \in Members(before.rooms, old)

\* C5 -- No-op send: a sendMessage whose declared room is not the room the
\* sender is currently a member of stores nothing in any room's log and
\* emits no newMessage.
C5_NoOpSend ==
  (/\ before.event.type = "sendMessage"
   /\ ~(/\ before.socket[before.event.conn].roomId = before.event.roomId
        /\ WasInSessionRoom))
    => /\ \A r \in Rooms : rooms[r].messages = before.rooms[r].messages
       /\ Emitted("newMessage") = {}

\* C6 -- Owner-only clear: a clearChat for an existing room from a connection
\* that is not its owner emits one error to the sender alone and changes no
\* shared state; a log is only emptied by a clearChat from the room's owner.
C6_OwnerOnlyClear ==
  /\ (/\ before.event.type = "clearChat"
      /\ before.event.roomId \in Rooms
      /\ before.rooms[before.event.roomId].owner # before.event.conn)
       => /\ Len(emitted) = 1
          /\ emitted[1].event = "error"
          /\ emitted[1].to = {before.event.conn}
          /\ rooms = before.rooms
          /\ activeUsers = before.activeUsers
          /\ channels = before.channels
          /\ socket = before.socket
  /\ \A r \in Rooms :
       (before.rooms[r].messages # <<>> /\ rooms[r].messages = <<>>)
         => /\ before.event.type = "clearChat"
            /\ before.event.roomId = r
            /\ before.rooms[r].owner = before.event.conn

\* a connection that does not own the room asked to clear its non-empty log
C6_Witness ==
  /\ before.event.type = "clearChat"
  /\ before.event.roomId \in Rooms
  /\ before.rooms[before.event.roomId].owner # before.event.conn
  /\ before.rooms[before.event.roomId].messages # <<>>

\* C7 -- Failed join is atomic: a joinRoom that fails with "Room not found",
\* from a connection that is a member of a room, emits only to that connection,
\* emits no userLeftRoom and leaves every room as it was.
C7_FailedJoinAtomic ==
  (/\ before.event.type = "joinRoom"
   /\ before.event.roomId \notin Rooms \cup {""}
   /\ Emitted("error") # {}
   /\ WasInSessionRoom)
    => /\ rooms = before.rooms
       /\ Emitted("userLeftRoom") = {}
       /\ \A i \in 1..Len(emitted) : emitted[i].to = {before.event.conn}

\* C8 -- Summary refresh: every event that changes a room's member count
\* emits a room summary to all connected sockets, with each room's userCount
\* equal to the length of its users.
C8_SummaryRefresh ==
  (\E r \in Rooms : Len(rooms[r].users) # Len(before.rooms[r].users))
    => \E i \in Emitted("availableRooms") \cup Emitted("roomsUpdate") :
         /\ emitted[i].to = {c \in Conns : Connected(c)}
         /\ \A r \in Rooms : emitted[i].rooms[r].userCount = Len(rooms[r].users)

\* C9 -- No-op leave: when the connection is not a member of the room its
\* session points at (no room, or a stale one), a disconnect changes no room
\* and emits nothing, and the leave a joinRoom starts with emits no
\* userLeftRoom and changes no room but the one joined.
C9_NoOpLeave ==
  (before.event.type \in {"disconnect", "joinRoom"} /\ ~WasInSessionRoom) =>
    /\ before.event.type = "disconnect" => (rooms = before.rooms /\ emitted = <<>>)
    /\ before.event.type = "joinRoom" =>
         /\ Emitted("userLeftRoom") = {}
         /\ Emitted("availableRooms") = {}
         /\ \A r \in Rooms \ {before.event.roomId} : rooms[r] = before.rooms[r]

\* a connection whose session points at a room it is no longer in disconnects
\* while that room has members
C9_Witness ==
  /\ before.event.type = "disconnect"
  /\ before.socket[before.event.conn].roomId \in Rooms
  /\ ~WasInSessionRoom
  /\ rooms[before.socket[before.event.conn].roomId].users # <<>>

\* the owner of room r when the join proper begins, the handler's leave done
OwnerAtJoin(r, c) ==
  LET others == Without(Ids(before.rooms[r].users), c)
  IN  IF before.rooms[r].owner = c /\ c \in Members(before.rooms, r)
      THEN IF others = <<>> THEN NULL ELSE Head(others)
      ELSE before.rooms[r].owner

\* C10 -- Ownership assignment on join: a successful joinRoom into r puts the
\* joiner at the tail of r.users; if r had no owner the joiner becomes owner
\* with isOwner true, otherwise the owner stays and the joiner's isOwner says
\* whether the owner is the joiner; roomJoined carries the stored flag.
C10_OwnershipOnJoin ==
  (before.event.type = "joinRoom" /\ Emitted("roomJoined") # {}) =>
    LET c == before.event.conn
        r == before.event.roomId
        was == OwnerAtJoin(r, c)
        users == rooms[r].users
        joiner == users[Len(users)]
    IN  /\ Ids(users) = Append(Without(Ids(before.rooms[r].users), c), c)
        /\ was = NULL => (rooms[r].owner = c /\ joiner.isOwner)
        /\ was # NULL => (rooms[r].owner = was /\ joiner.isOwner = (was = c))
        /\ \A i \in Emitted("roomJoined") :
             emitted[i].to = {c} /\ emitted[i].isOwner = joiner.isOwner

\* a connection has just joined a room that another connection owns
C10_Witness ==
  /\ before.event.type = "joinRoom"
  /\ Emitted("roomJoined") # {}
  /\ OwnerAtJoin(before.event.roomId, before.event.conn)
       \notin {NULL, before.event.conn}

\* C11 -- Empty rooms persist: the set of room ids never changes, and a room's
\* log is changed only by an accepted sendMessage to that room or by a
\* clearChat from its owner; no join, room switch or disconnect changes a log,
\* the one that takes the room's membership to zero included.
C11_EmptyRoomsPersist ==
  /\ DOMAIN rooms = Rooms
  /\ \A r \in Rooms :
       rooms[r].messages # before.rooms[r].messages
         => \/ /\ before.event.type = "sendMessage"
               /\ before.event.roomId = r
               /\ Emitted("newMessage") # {}
            \/ /\ before.event.type = "clearChat"
               /\ before.event.roomId = r
               /\ before.rooms[r].owner = before.event.conn

\* the last member has just left, by room switch or disconnect, a room whose
\* log holds a message
C11_Witness ==
  \E r \in Rooms :
    /\ before.event.type \in {"joinRoom", "disconnect"}
    /\ before.rooms[r].users # <<>>
    /\ before.rooms[r].messages # <<>>
    /\ rooms[r].users = <<>>

\* C12 -- Room broadcast audience: the connections subscribed to room r's
\* channel are exactly the members of r, so every newMessage and chatCleared
\* for r goes to exactly the members of r; a connection that has switched from
\* r to another room receives no further newMessage for r.
C12_BroadcastAudience ==
  /\ \A r \in Rooms : toRoom(channels, r) = Members(rooms, r)
  /\ \A i \in Emitted("newMessage") \cup Emitted("chatCleared") :
       emitted[i].to = Members(rooms, emitted[i].roomId)

\* C13 -- Join fan-out: a successful joinRoom emits exactly one roomJoined, to
\* the joiner alone, and exactly one userJoinedRoom, to the other members of
\* the target room and not the joiner; if the joiner was a member of a previous
\* room, exactly one userLeftRoom goes to the remaining members of that room
\* and not the joiner, ahead of the join notifications; otherwise none.
C13_JoinFanOut ==
  (before.event.type = "joinRoom" /\ Emitted("roomJoined") # {}) =>
    LET c == before.event.conn
        r == before.event.roomId
        old == before.socket[c].roomId
    IN  /\ Cardinality(Emitted("roomJoined")) = 1
        /\ \A i \in Emitted("roomJoined") : emitted[i].to = {c}
        /\ Cardinality(Emitted("userJoinedRoom")) = 1
        /\ \A i \in Emitted("userJoinedRoom") :
             /\ emitted[i].to = Members(rooms, r) \ {c}
             /\ emitted[i].roomId = r
        /\ IF WasInSessionRoom
           THEN /\ Cardinality(Emitted("userLeftRoom")) = 1
                /\ \A i \in Emitted("userLeftRoom") :
                     /\ emitted[i].to = Members(before.rooms, old) \ {c}
                     /\ emitted[i].roomId = old
                     /\ \A j \in Emitted("roomJoined") \cup Emitted("userJoinedRoom") :
                          i < j
           ELSE Emitted("userLeftRoom") = {}

\* a connection has just switched from a room where a member remains into a
\* room that has another member
C13_Witness ==
  /\ before.event.type = "joinRoom"
  /\ Emitted("roomJoined") # {}
  /\ WasInSessionRoom
  /\ before.socket[before.event.conn].roomId # before.event.roomId
  /\ Len(before.rooms[before.socket[before.event.conn].roomId].users) > 1
  /\ Len(rooms[before.event.roomId].users) > 1

\* C14 -- Session state tracks membership: a connection's socket.roomId is
\* non-null exactly when the connection is a member of that room and of no
\* other; after a leave, the one a failing joinRoom begins with included, the
\* pointer is null and names no room the connection is no longer in.
C14_SessionTracksMembership ==
  \A c \in Conns :
    /\ socket[c].roomId \in Rooms \cup {NULL}
    /\ \A r \in Rooms : (socket[c].roomId = r) <=> (c \in Members(rooms, r))

\* C15 -- Disconnect cleanup: once a connection's disconnect has been handled
\* it is in no room's users, owns no room and has no activeUsers entry,
\* whatever joins, switches and failed joins came before; the room it was in
\* keeps its other members in order and, if it was the owner, passes ownership
\* to the head of those that remain, or to null when none remains.
C15_DisconnectCleanup ==
  /\ \A c \in Conns :
       socket[c].status = "disconnected"
         => /\ \A r \in Rooms : c \notin Members(rooms, r) /\ rooms[r].owner # c
            /\ c \notin DOMAIN activeUsers
  /\ before.event.type = "disconnect"
       => \A r \in Rooms :
            LET c == before.event.conn
                rest == Without(Ids(before.rooms[r].users), c)
            IN  /\ Ids(rooms[r].users) = rest
                /\ rooms[r].owner =
                     IF before.rooms[r].owner # c THEN before.rooms[r].owner
                     ELSE IF rest = <<>> THEN NULL ELSE Head(rest)

\* the owner of a room with other members has just disconnected
C15_Witness ==
  /\ before.event.type = "disconnect"
  /\ \E r \in Rooms :
       /\ before.rooms[r].owner = before.event.conn
       /\ Len(before.rooms[r].users) > 1
       /\ rooms[r].owner \notin {NULL, before.event.conn}

\* C16 -- Broadcast ordering: every accepted sendMessage puts its message at
\* the tail of the room's log and emits it in the same step, as the one
\* newMessage of that handler, to every member of the room; so the log is the
\* tail of the sequence of messages emitted for the room, in emission order,
\* and messages appear in the order their handlers ran (ids increasing), those
\* of one connection in the order it sent them, whatever the interleaving.
C16_BroadcastOrdering ==
  /\ \A r \in Rooms :
       /\ rooms[r].messages = LastN(appended[r], Len(rooms[r].messages))
       /\ \A i, j \in 1..Len(appended[r]) :
            i < j => appended[r][i].id < appended[r][j].id
  /\ (before.event.type = "sendMessage" /\ Emitted("newMessage") # {}) =>
       LET r == before.event.roomId
           log == rooms[r].messages
       IN  /\ Cardinality(Emitted("newMessage")) = 1
           /\ \A i \in Emitted("newMessage") :
                /\ emitted[i].msg = log[Len(log)]
                /\ emitted[i].msg = appended[r][Len(appended[r])]
                /\ emitted[i].msg.userId = before.event.conn
                /\ Members(rooms, r) \subseteq emitted[i].to
           /\ SubSeq(log, 1, Len(log) - 1)
                = LastN(before.rooms[r].messages, Len(log) - 1)

\* two members of a room have sent to it alternately and both are still in it
C16_Witness ==
  \E r \in Rooms :
    /\ before.event.type = "sendMessage"
    /\ Len(rooms[r].messages) = 3
    /\ rooms[r].messages[1].userId = rooms[r].messages[3].userId
    /\ rooms[r].messages[1].userId # rooms[r].messages[2].userId
    /\ \A i \in 1..3 : rooms[r].messages[i].userId \in Members(rooms, r)
    /\ \A i \in 1..3 : rooms[r].messages[i].userId \in Members(before.rooms, r)

\* C17 -- Is-owner flag consistency: for every room and every member of it,
\* the member's isOwner is true exactly when the room's owner is that member's
\* id; so at most one member carries the flag, and a member promoted by
\* succession carries it in the state the succession produces.
C17_IsOwnerFlag ==
  \A r \in Rooms : \A i \in 1..Len(rooms[r].users) :
    rooms[r].users[i].isOwner <=> (rooms[r].owner = rooms[r].users[i].id)

\* a member who did not own the room has just become its owner by succession
C17_Witness ==
  \E r \in Rooms, c \in Conns :
    /\ c \in Members(before.rooms, r)
    /\ before.rooms[r].owner # c
    /\ rooms[r].owner = c

\* C18 -- Rejoin of the current room: an accepted joinRoom naming the room
\* the connection is already a member of acts as a leave followed by a join; the
\* room's member set and log, the other rooms, the registry's keys, the
\* channels and the session's room are as before; the rejoiner is now the
\* most recent member, and if it was the owner and other members were present
\* the owner is now the earliest of those and not the rejoiner; a rejoiner
\* that was alone owns the room again, and any other owner stays.
C18_Rejoin ==
  (/\ before.event.type = "joinRoom"
   /\ Emitted("roomJoined") # {}
   /\ before.event.conn \in Members(before.rooms, before.event.roomId)) =>
    LET c == before.event.conn
        r == before.event.roomId
        others == Without(Ids(before.rooms[r].users), c)
    IN  /\ Members(rooms, r) = Members(before.rooms, r)
        /\ Ids(rooms[r].users) = Append(others, c)
        /\ rooms[r].messages = before.rooms[r].messages
        /\ \A q \in Rooms \ {r} : rooms[q] = before.rooms[q]
        /\ DOMAIN activeUsers = DOMAIN before.activeUsers
        /\ activeUsers[c].roomId = r
        /\ channels = before.channels
        /\ socket[c].roomId = r
        /\ rooms[r].owner =
             IF before.rooms[r].owner # c THEN before.rooms[r].owner
             ELSE IF others # <<>> THEN Head(others) ELSE c
        /\ (before.rooms[r].owner = c /\ others # <<>>) => rooms[r].owner # c

\* the owner of a room with other members has just rejoined it
C18_Witness ==
  /\ before.event.type = "joinRoom"
  /\ Emitted("roomJoined") # {}
  /\ before.rooms[before.event.roomId].owner = before.event.conn
  /\ Len(before.rooms[before.event.roomId].users) > 1
  /\ before.event.conn \in Members(rooms, before.event.roomId)
  /\ rooms[before.event.roomId].messages # <<>>

\* C19 -- Every non-empty room has an owner: for every room, owner is null
\* exactly when users is empty; no sequence of joins, room switches, failed
\* joins and disconnects leaves a room with members and no owner.
C19_NonEmptyRoomHasOwner ==
  \A r \in Rooms : (rooms[r].owner = NULL) <=> (rooms[r].users = <<>>)

\* the owner has just left, by a join that failed, a room that keeps a member
C19_Witness ==
  /\ before.event.type = "joinRoom"
  /\ Emitted("error") # {}
  /\ \E r \in Rooms :
       /\ before.rooms[r].owner = before.event.conn
       /\ before.event.conn \notin Members(rooms, r)
       /\ rooms[r].users # <<>>

\* the number of members over all rooms
RECURSIVE SumOfCounts(_, _)
SumOfCounts(rs, ids) ==
  IF ids = {} THEN 0
  ELSE LET id == CHOOSE x \in ids : TRUE
       IN  Len(rs[id].users) + SumOfCounts(rs, ids \ {id})

\* C20 -- Active-user registry consistency: the keys of activeUsers are
\* exactly the connection ids present in some room's users, each entry's
\* roomId is the room that connection is a member of, and totalUsers
\* (activeUsers.size) is the sum of the rooms' member counts.
C20_RegistryConsistency ==
  /\ DOMAIN activeUsers = UNION {Members(rooms, r) : r \in Rooms}
  /\ \A c \in DOMAIN activeUsers :
       /\ activeUsers[c].roomId \in Rooms
       /\ c \in Members(rooms, activeUsers[c].roomId)
  /\ Cardinality(DOMAIN activeUsers) = SumOfCounts(rooms, Rooms)

\* a connection has just left the registry while two others spread over two
\* rooms stay in it
C20_Witness ==
  /\ Cardinality(DOMAIN before.activeUsers) = 3
  /\ Cardinality(DOMAIN activeUsers) = 2
  /\ \E c, d \in DOMAIN activeUsers : activeUsers[c].roomId # activeUsers[d].roomId

====
